---- MODULE Spec2Model ----
(***************************************************************************)
(* A model of the cipher decoding engine of audiocipher-decoder            *)
(* (src/decoder.py): the letter/note mapping of a scale, the expansion of  *)
(* a melody into candidate letter strings, the word-break dynamic program, *)
(* and the run of main / decode_tone_row_parallel over a worker pool.      *)
(*                                                                         *)
(* Text is modelled as sequences of one-character strings, so joining,     *)
(* splitting and slicing are computed, never assumed.  A Python dict is a  *)
(* sequence of <<key, value>> pairs in insertion order.                    *)
(***************************************************************************)
EXTENDS Integers, Sequences, FiniteSets, TLC

VARIABLES
    \* ---- scale mapper (create_letter_note_mapping / reverse_mapping)
    mpc,            \* position: "loop", "reverse", "done" ("off" in other specifications)
    sc,             \* the scale object: <<root name, mode name>>
    mapping,        \* dict letter -> pitch name, in insertion order
    idx,            \* loop counter of create_letter_note_mapping
    note_to_letters,\* dict pitch name -> list of letters
    \* ---- lexical segmenter (segment_into_words)
    spc,            \* position: "call", "returned" ("off" in other specifications)
    decoded_chars,  \* the candidate string
    seg_words,      \* words_set handed to the segmenter
    seg_names,      \* the proper names loaded alongside (they count for max_word_length)
    seg_result,     \* the returned decomposition, or None
    \* ---- one run of main's loop body and decode_tone_row_parallel
    pc,             \* position in the run ("off" in other specifications)
    tone_row,       \* the string midi_to_tone_row returned
    english_words,  \* load_word_list()
    all_names,      \* load_name_list()
    prefixes_set,   \* build_prefix_set(combined_words)
    max_word_length,
    melody_notes,   \* the validated note names
    task_return,    \* work item -> what process_func returns for it (fixed by the
                    \* arguments pool.map pickles, whichever worker runs it)
    run_fault,      \* the work item whose call raises, and where (item 0: none)
    next_chunk,     \* how many chunks of root_modes the pool has handed out
    running,        \* the chunks that a worker process is running
    done_chunks,    \* the chunks whose results have come back
    overtaken,      \* whether a chunk came back before one handed out earlier
    pool,           \* the worker pool: "none", "open" or "joined"
    all_results,    \* pool.map's result list, one slot per work item
    single_words,   \* the set decode_tone_row_parallel creates and reports
    flat_results,   \* the chained results
    r_i,            \* index of the deduplication loop in flat_results
    unique_results, \* dict key -> record
    best_phrases,   \* the records printed, in print order
    printed_single_words, \* the single words printed, in print order
    \* ---- one call of process_root_mode, statement by statement
    dpc,            \* position in process_root_mode ("off" in other specifications)
    d_root_mode,    \* root_mode_tuple: <<root name, mode name>>
    d_melody,       \* melody_notes
    d_words_set,    \* words_set
    d_names,        \* all_names
    d_english,      \* english_words
    d_fault,        \* the call inside the try block that raises, if any
    d_mapping,      \* mapping
    d_combinations, \* decoded_combinations
    d_i,            \* index of the candidate the for loop is at
    d_phrase,       \* phrase of the last turn of the loop
    d_valid,        \* what is_valid_phrase returned in the last turn that called it
    d_results,      \* results
    d_raised,       \* whether the except branch of process_root_mode ran
    d_return,       \* the returned list
    \* ---- one call of is_valid_phrase
    vpc,            \* position: "call", "returned" ("off" in other specifications)
    v_phrase,       \* phrase: a list of words
    v_names,        \* all_names
    v_words,        \* english_words
    v_result        \* the returned boolean

mapVars == <<mpc, sc, mapping, idx, note_to_letters>>
segVars == <<spc, decoded_chars, seg_words, seg_names, seg_result>>
runVars == <<pc, tone_row, english_words, all_names, prefixes_set, max_word_length,
             melody_notes, task_return, run_fault, next_chunk, running, done_chunks,
             overtaken, pool, all_results, single_words, flat_results, r_i, unique_results,
             best_phrases,
             printed_single_words>>
decVars == <<dpc, d_root_mode, d_melody, d_words_set, d_names, d_english, d_fault,
             d_mapping, d_combinations, d_i, d_phrase, d_valid, d_results, d_raised,
             d_return>>
valVars == <<vpc, v_phrase, v_names, v_words, v_result>>

-----------------------------------------------------------------------------
(* Python values *)

\* Python's None, kept apart from every list of words (a word is a sequence
\* of one-character strings, and "None" is no character).
None == << <<"None">> >>

\* string.ascii_lowercase
letters == << "a", "b", "c", "d", "e", "f", "g", "h", "i", "j", "k", "l", "m",
              "n", "o", "p", "q", "r", "s", "t", "u", "v", "w", "x", "y", "z" >>

\* k in d
DictHas(d, k) == \E i \in 1..Len(d) : d[i][1] = k

\* d.get(k, default)
DictGet(d, k, default) ==
    IF DictHas(d, k) THEN d[CHOOSE i \in 1..Len(d) : d[i][1] = k][2] ELSE default

\* d[k] = v : overwrite in place, or insert at the end
DictSet(d, k, v) ==
    IF DictHas(d, k)
    THEN LET i == CHOOSE j \in 1..Len(d) : d[j][1] = k
         IN  SubSeq(d, 1, i - 1) \o << <<k, v>> >> \o SubSeq(d, i + 1, Len(d))
    ELSE Append(d, <<k, v>>)

\* the keys of d
DictKeys(d) == {d[i][1] : i \in 1..Len(d)}

-----------------------------------------------------------------------------
(* music21 pitches and scales, as far as the decoder uses them.  A pitch is *)
(* <<step, alter>>: step 0..6 for C D E F G A B, alter in semitones.        *)

StepNames == << "C", "D", "E", "F", "G", "A", "B" >>
StepPitchClass == << 0, 2, 4, 5, 7, 9, 11 >>

RECURSIVE Repeat(_, _)
Repeat(c, n) == IF n = 0 THEN <<>> ELSE <<c>> \o Repeat(c, n - 1)

\* Pitch.name : the step letter followed by '#' or '-' signs
PitchName(p) ==
    <<StepNames[p[1] + 1]>> \o
        (IF p[2] >= 0 THEN Repeat("#", p[2]) ELSE Repeat("-", 0 - p[2]))

\* Pitch.pitchClass
PitchClassOf(p) == (StepPitchClass[p[1] + 1] + p[2] + 12) % 12

AllPitches == {<<s, a>> : s \in 0..6, a \in -2..2}

\* pitch.Pitch(name) : raises (here: None) for a name that is no pitch
IsPitchName(n) == \E p \in AllPitches : PitchName(p) = n
ParsePitch(n) == CHOOSE p \in AllPitches : PitchName(p) = n

\* the spelling of pitch class pclass on a given step
Spell(step, pclass) ==
    <<step, ((pclass - StepPitchClass[step + 1] + 18) % 12) - 6>>

\* Pitch.getHigherEnharmonic / getLowerEnharmonic : same sound, next step
getHigherEnharmonic(p) == Spell((p[1] + 1) % 7, PitchClassOf(p))
getLowerEnharmonic(p) == Spell((p[1] + 6) % 7, PitchClassOf(p))

\* Pitch.getEnharmonic : sharps go up a step, flats go down a step, and a
\* natural goes down from C, D, G and up from E, F, A, B
getEnharmonic(p) ==
    IF p[2] > 0 THEN getHigherEnharmonic(p)
    ELSE IF p[2] < 0 THEN getLowerEnharmonic(p)
    ELSE IF p[1] \in {0, 1, 4} THEN getLowerEnharmonic(p)
    ELSE getHigherEnharmonic(p)

\* the modes of main's catalog, in the order of the dict, each with the
\* semitone offset of its degrees 1..7 from the root
modes == <<
    <<"Major",          <<0, 2, 4, 5, 7, 9, 11>> >>,
    <<"Dorian",         <<0, 2, 3, 5, 7, 9, 10>> >>,
    <<"Phrygian",       <<0, 1, 3, 5, 7, 8, 10>> >>,
    <<"Lydian",         <<0, 2, 4, 6, 7, 9, 11>> >>,
    <<"Mixolydian",     <<0, 2, 4, 5, 7, 9, 10>> >>,
    <<"Minor",          <<0, 2, 3, 5, 7, 8, 10>> >>,
    <<"Locrian",        <<0, 1, 3, 5, 6, 8, 10>> >>,
    <<"Harmonic Minor", <<0, 2, 3, 5, 7, 8, 11>> >> >>

\* the root notes of main's catalog
root_notes == << <<"C">>, <<"C", "#">>, <<"D">>, <<"D", "#">>, <<"E">>, <<"F">>,
                 <<"F", "#">>, <<"G">>, <<"G", "#">>, <<"A">>, <<"A", "#">>, <<"B">> >>

\* root_modes as main builds it: roots in order, modes in order within a root
root_modes ==
    [k \in 1..(Len(root_notes) * Len(modes)) |->
        <<root_notes[((k - 1) \div Len(modes)) + 1], modes[((k - 1) % Len(modes)) + 1][1]>>]

ModeOffsets(mode_name) ==
    modes[CHOOSE m \in 1..Len(modes) : modes[m][1] = mode_name][2]

\* sc.pitchFromDegree(degree) : the degree is spelled on its own step above
\* the root, and a spelling with more than one accidental is replaced by the
\* enharmonic on the neighbouring step (music21's maxAccidental policy)
pitchFromDegree(scale, degree) ==
    LET root == ParsePitch(scale[1])
        pclass == (PitchClassOf(root) + ModeOffsets(scale[2])[degree]) % 12
        p    == Spell((root[1] + degree - 1) % 7, pclass)
    IN  IF p[2] > 1 THEN getHigherEnharmonic(p)
        ELSE IF p[2] < -1 THEN getLowerEnharmonic(p)
        ELSE p

-----------------------------------------------------------------------------
(* create_letter_note_mapping and reverse_mapping *)

\* degrees = list(range(1, 8))
degrees == << 1, 2, 3, 4, 5, 6, 7 >>

\* MappingStep with the modulus off by one (idx % 6): degree 7 is never used
MappingStep_ModSix(scale, m, i) ==
    LET degree     == degrees[(i % (Len(degrees) - 1)) + 1]
        pitch_name == PitchName(pitchFromDegree(scale, degree))
    IN  DictSet(m, letters[i + 1], pitch_name)

\* one turn of the while loop: the letter at idx gets the pitch of the degree
MappingStep(scale, m, i) ==
    LET degree     == degrees[(i % Len(degrees)) + 1]
        pitch_name == PitchName(pitchFromDegree(scale, degree))
    IN  DictSet(m, letters[i + 1], pitch_name)

RECURSIVE MappingLoop(_, _, _)
MappingLoop(scale, m, i) ==
    IF Len(m) < Len(letters)
    THEN LET m1 == MappingStep(scale, m, i)
         \* (the test makes TLC evaluate m1 before the next turn)
         IN  IF Len(m1) = 0 THEN m1 ELSE MappingLoop(scale, m1, i + 1)
    ELSE m

create_letter_note_mapping(scale) == MappingLoop(scale, <<>>, 0)

\* ReverseStep that assigns [letter] instead of appending to the group
ReverseStep_Overwrite(ntl, item) ==
    DictSet(ntl, item[2], <<item[1]>>)

\* one turn of reverse_mapping's loop over mapping.items()
ReverseStep(ntl, item) ==
    LET letter     == item[1]
        pitch_name == item[2]
        ntl1 == IF ~DictHas(ntl, pitch_name) THEN DictSet(ntl, pitch_name, <<>>) ELSE ntl
    IN  DictSet(ntl1, pitch_name, Append(DictGet(ntl1, pitch_name, <<>>), letter))

RECURSIVE ReverseLoop(_, _, _)
ReverseLoop(m, k, ntl) ==
    IF k > Len(m) THEN ntl
    ELSE LET ntl1 == ReverseStep(ntl, m[k])
         IN  IF Len(ntl1) = 0 THEN ntl1 ELSE ReverseLoop(m, k + 1, ntl1)

reverse_mapping(m) == ReverseLoop(m, 1, <<>>)

-----------------------------------------------------------------------------
(* The lexicon as main derives it, and segment_into_words *)

\* build_prefix_set(words) : every proper, non-empty prefix of every word
build_prefix_set(words) ==
    UNION {{SubSeq(w, 1, i) : i \in 1..(Len(w) - 1)} : w \in words}

\* max((len(word) for word in combined_words), default=0)
MaxWordLength(combined_words) ==
    IF combined_words = {} THEN 0
    ELSE CHOOSE m \in {Len(w) : w \in combined_words} :
            \A w \in combined_words : Len(w) <= m

\* max(a, b)
Max(a, b) == IF a >= b THEN a ELSE b

\* SegTry that keeps whatever decomposition it meets last (the test for a
\* strictly smaller word count is lost)
SegTry_KeepLast(dp, chars, i, j, words_set, prefixes) ==
    IF dp[j + 1] # None /\ SubSeq(chars, j + 1, i) \in words_set
    THEN [dp EXCEPT ![i + 1] = Append(dp[j + 1], SubSeq(chars, j + 1, i))]
    ELSE dp

\* SegTry that stores the new word alone (dp[j] is dropped)
SegTry_DropPrefix(dp, chars, i, j, words_set, prefixes) ==
    IF dp[j + 1] # None /\ SubSeq(chars, j + 1, i) \in words_set
         /\ (dp[i + 1] = None \/ Len(dp[j + 1]) + 1 < Len(dp[i + 1]))
    THEN [dp EXCEPT ![i + 1] = <<SubSeq(chars, j + 1, i)>>]
    ELSE dp

\* SegTry that tests for a prefix first and skips such a word
SegTry_PrefixFirst(dp, chars, i, j, words_set, prefixes) ==
    IF dp[j + 1] # None /\ SubSeq(chars, j + 1, i) \notin prefixes
         /\ SubSeq(chars, j + 1, i) \in words_set
         /\ (dp[i + 1] = None \/ Len(dp[j + 1]) + 1 < Len(dp[i + 1]))
    THEN [dp EXCEPT ![i + 1] = Append(dp[j + 1], SubSeq(chars, j + 1, i))]
    ELSE dp

\* SegTry that also replaces the stored decomposition on an equal word count
SegTry_ReplaceOnTie(dp, chars, i, j, words_set, prefixes) ==
    IF dp[j + 1] # None /\ SubSeq(chars, j + 1, i) \in words_set
         /\ (dp[i + 1] = None \/ Len(dp[j + 1]) + 1 <= Len(dp[i + 1]))
    THEN [dp EXCEPT ![i + 1] = Append(dp[j + 1], SubSeq(chars, j + 1, i))]
    ELSE dp

\* the body of segment_into_words' inner loop, for end index i and split
\* point j (dp[k] of the code is dp[k + 1] here)
SegTry(dp, chars, i, j, words_set, prefixes) ==
    IF dp[j + 1] # None
    THEN LET word == SubSeq(chars, j + 1, i)
         IN  IF word \in words_set
             THEN IF dp[i + 1] = None \/ Len(dp[j + 1]) + 1 < Len(dp[i + 1])
                  THEN [dp EXCEPT ![i + 1] = Append(dp[j + 1], word)]
                  ELSE dp
             ELSE IF word \in prefixes
                  THEN dp    \* continue
                  ELSE dp
    ELSE dp

\* for j in range(max(0, i - max_word_length), i)
RECURSIVE SegInner(_, _, _, _, _, _)
SegInner(dp, chars, i, j, words_set, prefixes) ==
    IF j >= i THEN dp
    ELSE LET dp1 == SegTry(dp, chars, i, j, words_set, prefixes)
         \* (the test makes TLC evaluate dp1 before the next turn)
         IN  IF Len(dp1) = 0 THEN dp1
             ELSE SegInner(dp1, chars, i, j + 1, words_set, prefixes)

\* a window one split point short: a word of max_word_length letters that
\* ends at i is never tried
WindowStart_OneShort(i, max_len) == Max(0, i - max_len + 1)

\* the first split point scanned for end index i: max(0, i - max_word_length)
WindowStart(i, max_len) == Max(0, i - max_len)

\* for i in range(1, n + 1)
RECURSIVE SegOuter(_, _, _, _, _, _)
SegOuter(dp, chars, i, words_set, prefixes, max_len) ==
    IF i > Len(chars) THEN dp
    ELSE LET dp1 == SegInner(dp, chars, i, WindowStart(i, max_len),
                             words_set, prefixes)
         IN  IF Len(dp1) = 0 THEN dp1
             ELSE SegOuter(dp1, chars, i + 1, words_set, prefixes, max_len)

\* segment_into_words : dp[n] after the two loops; dp = [None] * (n + 1), dp[0] = []
segment_into_words(chars, words_set, prefixes, max_len) ==
    LET n   == Len(chars)
        dp0 == <<<<>>>> \o [k \in 1..n |-> None]
    IN  SegOuter(dp0, chars, 1, words_set, prefixes, max_len)[n + 1]

-----------------------------------------------------------------------------
(* decode_melody, is_valid_phrase and process_root_mode *)

\* the list q itself; the call makes TLC build the list at once
Force(q) == SubSeq(q, 1, Len(q))

\* itertools.product(*possible_letters), in its order: the last position
\* varies fastest.  product() of no list yields the one empty tuple.
RECURSIVE Product(_)
Product(possible_letters) ==
    IF possible_letters = <<>> THEN << <<>> >>
    ELSE LET head == Head(possible_letters)
             rest == Product(Tail(possible_letters))
         IN  Force([t \in 1..(Len(head) * Len(rest)) |->
                      <<head[((t - 1) \div Len(rest)) + 1]>>
                          \o rest[((t - 1) % Len(rest)) + 1]])

\* the letters of one note without the enharmonic fallback
LettersOfNote_NoFallback(ntl, n) == DictGet(ntl, n, <<>>)

\* decode_melody, the letters found for one note n: the group of n, or else
\* the group of the enharmonic name of n, or else none
LettersOfNote(ntl, n) ==
    LET direct == DictGet(ntl, n, <<>>)
    IN  IF direct # <<>> THEN direct
        ELSE IF IsPitchName(n)
             THEN DictGet(ntl, PitchName(getEnharmonic(ParsePitch(n))), <<>>)
             ELSE <<>>    \* pitch.Pitch(n) raised

\* decode_melody that leaves a note without letters out
decode_melody_SkipNote(ntl, melody) ==
    LET found == SelectSeq(melody, LAMBDA n : LettersOfNote(ntl, n) # <<>>)
        possible_letters == [k \in 1..Len(found) |-> LettersOfNote(ntl, found[k])]
    IN  [truthy |-> TRUE, items |-> Product(Force(possible_letters))]

\* decode_melody : [] as soon as a note has no letters, else the product.
\* truthy tells the two apart: a product object is true even when it is
\* the product of no list, a list is true when it has items.
decode_melody(ntl, melody) ==
    LET possible_letters == [k \in 1..Len(melody) |-> LettersOfNote(ntl, melody[k])]
    IN  IF \E k \in 1..Len(melody) : possible_letters[k] = <<>>
        THEN [truthy |-> FALSE, items |-> <<>>]
        ELSE [truthy |-> TRUE, items |-> Product(Force(possible_letters))]

\* is_valid_phrase without the rule on one-letter words
is_valid_phrase_AnyLetter(phrase, names, words) ==
    IF phrase = <<>> THEN FALSE
    ELSE \A k \in 1..Len(phrase) : phrase[k] \in words \/ phrase[k] \in names

\* is_valid_phrase whose only one-letter word is "a"
is_valid_phrase_OnlyA(phrase, names, words) ==
    IF phrase = <<>> THEN FALSE
    ELSE \A k \in 1..Len(phrase) :
            /\ ~(Len(phrase[k]) = 1 /\ phrase[k] \notin { <<"a">> })
            /\ (phrase[k] \in words \/ phrase[k] \in names)

\* is_valid_phrase(phrase, all_names, english_words)
is_valid_phrase(phrase, names, words) ==
    IF phrase = <<>> THEN FALSE
    ELSE \A k \in 1..Len(phrase) :
            /\ ~(Len(phrase[k]) = 1 /\ phrase[k] \notin { <<"a">>, <<"i">> })
            /\ (phrase[k] \in words \/ phrase[k] \in names)

\* ' '.join(phrase)
RECURSIVE Join(_)
Join(phrase) ==
    IF phrase = <<>> THEN <<>>
    ELSE IF Len(phrase) = 1 THEN phrase[1]
    ELSE phrase[1] \o <<" ">> \o Join(Tail(phrase))

\* the record whose num_words is the length of the joined text
ResultRecord_LenOfText(phrase, root_mode) ==
    [phrase |-> Join(phrase), decoded_root_note |-> root_mode[1],
     decoded_scale |-> root_mode[2], num_words |-> Len(Join(phrase))]

\* the record whose num_words counts the spaces of the joined text
ResultRecord_CountSpaces(phrase, root_mode) ==
    [phrase |-> Join(phrase), decoded_root_note |-> root_mode[1],
     decoded_scale |-> root_mode[2], num_words |-> Len(phrase) - 1]

\* the dict process_root_mode appends for a phrase
ResultRecord(phrase, root_mode) ==
    [phrase |-> Join(phrase), decoded_root_note |-> root_mode[1],
     decoded_scale |-> root_mode[2], num_words |-> Len(phrase)]

\* A call inside the try block of process_root_mode that raises: stage
\* names the call ("scale": decode_mode_class(decode_root), "mapping":
\* sc.pitchFromDegree inside create_letter_note_mapping, "expansion":
\* decode_melody, "segmentation": the body of the for loop in its turn
\* number at), "none" when no call raises.
NoFault == [stage |-> "none", at |-> 0]

\* no work item of the run raises
NoRunFault == [item |-> 0, stage |-> "none", at |-> 0]

\* the except branch that keeps the records built before the error
ExceptReturn_KeepBuilt(results) == results

\* except Exception as e: logging.error(...); return []
ExceptReturn(results) == <<>>

\* process_root_mode : the results list it returns, and the single_words set
\* of the process it runs in as the call leaves it.  The loop over the
\* candidates is given by its outcome: the kept phrases in candidate order,
\* up to the turn that raises if one does.
process_root_mode(root_mode, melody, words_set, prefixes, max_len, names, words, single_words_in, fault) ==
    IF fault.stage = "scale"
    THEN [results |-> ExceptReturn(<<>>), single_words |-> single_words_in]
    ELSE
    LET m    == IF fault.stage = "mapping" THEN <<>>
                ELSE create_letter_note_mapping(root_mode)
    IN  IF m = <<>>
        THEN [results |-> <<>>, single_words |-> single_words_in]
        ELSE IF fault.stage = "expansion"
        THEN [results |-> ExceptReturn(<<>>), single_words |-> single_words_in]
        ELSE
        LET comb == decode_melody(reverse_mapping(m), melody)
        IN  IF ~comb.truthy
            THEN [results |-> <<>>, single_words |-> single_words_in]
            ELSE LET raises == fault.stage = "segmentation" /\ fault.at <= Len(comb.items)
                     turns == IF raises THEN fault.at - 1 ELSE Len(comb.items)
                     phrases == Force([k \in 1..turns |->
                                    segment_into_words(comb.items[k], words_set,
                                                       prefixes, max_len)])
                     Kept(ph) == ph # None /\ ph # <<>> /\ is_valid_phrase(ph, names, words)
                     kept == SelectSeq(phrases, Kept)
                     built == Force([k \in 1..Len(kept) |-> ResultRecord(kept[k], root_mode)])
                 IN  [results |-> IF raises THEN ExceptReturn(built) ELSE built,
                      single_words |-> single_words_in \cup
                          {kept[k][1] : k \in {x \in 1..Len(kept) : Len(kept[x]) = 1}}]

-----------------------------------------------------------------------------
(* The scale mapper on its own: one scale of the catalog, the loop of       *)
(* create_letter_note_mapping turn by turn, then reverse_mapping.           *)

SegOff ==
    /\ spc = "off" /\ decoded_chars = <<>> /\ seg_words = {} /\ seg_names = {}
    /\ seg_result = None

RunOff ==
    /\ pc = "off" /\ tone_row = <<>> /\ english_words = {} /\ all_names = {}
    /\ prefixes_set = {} /\ max_word_length = 0 /\ melody_notes = <<>>
    /\ task_return = <<>> /\ next_chunk = 0 /\ running = {} /\ done_chunks = {}
    /\ overtaken = FALSE /\ pool = "none" /\ run_fault = NoRunFault
    /\ all_results = <<>> /\ single_words = {} /\ flat_results = <<>>
    /\ r_i = 0 /\ unique_results = <<>> /\ best_phrases = <<>>
    /\ printed_single_words = <<>>

DecOff ==
    /\ dpc = "off" /\ d_root_mode = << <<"C">>, "Major" >> /\ d_melody = <<>>
    /\ d_words_set = {} /\ d_names = {} /\ d_english = {} /\ d_fault = NoFault
    /\ d_mapping = <<>> /\ d_combinations = [truthy |-> FALSE, items |-> <<>>]
    /\ d_i = 0 /\ d_phrase = None /\ d_valid = FALSE /\ d_results = <<>>
    /\ d_raised = FALSE /\ d_return = <<>>

ValOff ==
    /\ vpc = "off" /\ v_phrase = <<>> /\ v_names = {} /\ v_words = {} /\ v_result = FALSE

InitMap ==
    /\ mpc = "loop"
    /\ sc \in {root_modes[k] : k \in 1..Len(root_modes)}
    /\ mapping = <<>>
    /\ idx = 0
    /\ note_to_letters = <<>>
    /\ SegOff
    /\ RunOff
    /\ DecOff /\ ValOff

MapLoopTurn ==
    /\ mpc = "loop"
    /\ Len(mapping) < Len(letters)
    /\ mapping' = MappingStep(sc, mapping, idx)
    /\ idx' = idx + 1
    /\ UNCHANGED <<mpc, sc, note_to_letters>>
    /\ UNCHANGED <<segVars, runVars, decVars, valVars>>

MapLoopExit ==
    /\ mpc = "loop"
    /\ ~(Len(mapping) < Len(letters))
    /\ mpc' = "reverse"
    /\ UNCHANGED <<sc, mapping, idx, note_to_letters>>
    /\ UNCHANGED <<segVars, runVars, decVars, valVars>>

MapReverse ==
    /\ mpc = "reverse"
    /\ note_to_letters' = reverse_mapping(mapping)
    /\ mpc' = "done"
    /\ UNCHANGED <<sc, mapping, idx>>
    /\ UNCHANGED <<segVars, runVars, decVars, valVars>>

NextMap == MapLoopTurn \/ MapLoopExit \/ MapReverse

vars == <<mapVars, segVars, runVars, decVars, valVars>>

SpecMap == InitMap /\ [][NextMap]_vars

-----------------------------------------------------------------------------
(* The segmenter on its own: one call of segment_into_words with the        *)
(* arguments main and process_root_mode hand it, for every candidate string *)
(* up to MaxLen letters and every lexicon drawn from the two word lists.    *)

\* the longest candidate string (melody) tried
MaxLen == 4

SegAlphabet == {"a", "b"}

\* entries of wordlist.txt, as load_word_list keeps them: lowercase, and a
\* one-letter entry only if it is "a" or "i"
WordUniverse == { <<"a">>, <<"a", "b">>, <<"b", "a">>, <<"b", "b">>,
                  <<"a", "a", "b">>, <<"b", "a", "b">> }

\* entries of names.txt, as load_name_list keeps them
NameUniverse == { <<"a", "b", "b", "a">>, <<"b", "b">> }

MapOff ==
    /\ mpc = "off" /\ sc = << <<"C">>, "Major" >> /\ mapping = <<>> /\ idx = 0
    /\ note_to_letters = <<>>

InitSeg ==
    /\ spc = "call"
    /\ decoded_chars \in UNION {[1..k -> SegAlphabet] : k \in 0..MaxLen}
    /\ seg_words \in SUBSET WordUniverse
    /\ seg_names \in SUBSET NameUniverse
    /\ seg_words \cup seg_names # {}
    /\ seg_result = None
    /\ MapOff
    /\ RunOff
    /\ DecOff /\ ValOff

\* phrase = segment_into_words(decoded_chars, words_set, prefixes_set,
\* max_word_length), with prefixes_set and max_word_length as main derives
\* them from the union of the two lists and words_set = english_words
SegCall ==
    /\ spc = "call"
    /\ seg_result' = segment_into_words(decoded_chars, seg_words,
                        build_prefix_set(seg_words \cup seg_names),
                        MaxWordLength(seg_words \cup seg_names))
    /\ spc' = "returned"
    /\ UNCHANGED <<decoded_chars, seg_words, seg_names>>
    /\ UNCHANGED <<mapVars, runVars, decVars, valVars>>

NextSeg == SegCall

SpecSeg == InitSeg /\ [][NextSeg]_vars

-----------------------------------------------------------------------------
(* One run: main's loop body for one MIDI file, then                        *)
(* decode_tone_row_parallel with its pool of worker processes.              *)

\* the number of pool processes, cpu_count()
NumWorkers == 2

\* ---- text helpers

ascii_uppercase == << "A", "B", "C", "D", "E", "F", "G", "H", "I", "J", "K", "L", "M",
                      "N", "O", "P", "Q", "R", "S", "T", "U", "V", "W", "X", "Y", "Z" >>

\* str.upper(), one character
UpperChar(c) ==
    IF \E k \in 1..Len(letters) : letters[k] = c
    THEN ascii_uppercase[CHOOSE k \in 1..Len(letters) : letters[k] = c]
    ELSE c

\* n.upper()
Upper(n) == Force([k \in 1..Len(n) |-> UpperChar(n[k])])

\* tone_row.strip().split() : the maximal runs of non-blank characters
Split(str) ==
    LET starts == {i \in 1..Len(str) : str[i] # " " /\ (i = 1 \/ str[i - 1] = " ")}
        EndOf(i) == CHOOSE e \in i..Len(str) :
                        /\ \A k \in i..e : str[k] # " "
                        /\ (e = Len(str) \/ str[e + 1] = " ")
        Nth(k) == CHOOSE i \in starts : Cardinality({j \in starts : j < i}) = k - 1
    IN  Force([k \in 1..Cardinality(starts) |-> SubSeq(str, Nth(k), EndOf(Nth(k)))])

\* the order of Python's string comparison on the characters used here
CharOrd(c) ==
    IF \E k \in 1..Len(letters) : letters[k] = c
    THEN CHOOSE k \in 1..Len(letters) : letters[k] = c
    ELSE 0

\* a < b for strings
StrLess(a, b) ==
    \E k \in 1..(Len(a) + 1) :
        /\ \A x \in 1..(k - 1) : x <= Len(b) /\ a[x] = b[x]
        /\ \/ k = Len(a) + 1 /\ Len(b) >= k
           \/ k <= Len(a) /\ k <= Len(b) /\ CharOrd(a[k]) < CharOrd(b[k])

\* lambda x: x['phrase']
PhraseOf(r) == r.phrase

\* sorted(q, key=lambda x: x['phrase']) : stable, by string comparison of
\* the keys
SortedBy(q) ==
    LET Rank(i) == Cardinality({j \in 1..Len(q) :
                        \/ StrLess(PhraseOf(q[j]), PhraseOf(q[i]))
                        \/ PhraseOf(q[j]) = PhraseOf(q[i]) /\ j < i}) + 1
    IN  Force([pos \in 1..Len(q) |-> q[CHOOSE i \in 1..Len(q) : Rank(i) = pos]])

\* sorted(a set of strings)
SortedSet(S) ==
    Force([pos \in 1..Cardinality(S) |->
              CHOOSE w \in S : Cardinality({v \in S : StrLess(v, w)}) = pos - 1])

\* ---- the inputs tried

\* ' '.join(note_names)
JoinNames(note_names) == Join(note_names)

\* tone rows as midi_to_tone_row joins them from music21's pitch names: no
\* note, a repeated A, and flats that the validation has to respell
ToneRows == { JoinNames(<<>>),
              JoinNames(<< <<"A">>, <<"A">>, <<"A">> >>),
              JoinNames(<< <<"A">>, <<"A">> >>),
              JoinNames(<< <<"B", "-">>, <<"B", "-">>, <<"B", "-">> >>),
              JoinNames(<< <<"E", "-">>, <<"C">> >>),
              JoinNames(<< <<"E", "#">>, <<"C", "-">> >>),
              JoinNames(<< <<"A">>, <<"H">> >>),
              JoinNames(<< <<"A">>, <<"C", "-", "-">> >>) }

\* the contents of wordlist.txt and names.txt tried, as the loaders keep
\* them.  The letters b, i, p, w share a scale degree, and so do d, k, r, y.
WordList == { <<"i">>, <<"p", "i">>, <<"b", "i", "b">>, <<"d", "r", "y">> }
NameList == { <<"p", "i", "p">>, <<"p", "i">> }
Lexicons == { <<{}, {}>>,
              <<WordList, {}>>,
              <<WordList, NameList>>,
              <<{ <<"p", "i", "p">> }, { <<"b", "i", "b">> }>>,
              <<{}, NameList>> }

\* ---- decode_tone_row_parallel, the validation of the notes

valid_note_names == { <<"C">>, <<"C", "#">>, <<"D">>, <<"D", "#">>, <<"E">>,
                      <<"F">>, <<"F", "#">>, <<"G">>, <<"G", "#">>,
                      <<"A">>, <<"A", "#">>, <<"B">> }

\* a note the validation loop returns on
InvalidNote == <<"invalid">>

\* the validation that lets a note it cannot normalize through
ValidatedNote_PassThrough(n) ==
    IF n \in valid_note_names THEN n
    ELSE IF ~IsPitchName(n) THEN n
    ELSE LET enharmonic_name == PitchName(getEnharmonic(ParsePitch(n)))
         IN  IF enharmonic_name \in valid_note_names THEN enharmonic_name ELSE n

\* the validation that finds the enharmonic name and does not store it
ValidatedNote_NoReplace(n) ==
    IF n \in valid_note_names THEN n
    ELSE IF ~IsPitchName(n) THEN InvalidNote
    ELSE LET enharmonic_name == PitchName(getEnharmonic(ParsePitch(n)))
         IN  IF enharmonic_name \in valid_note_names THEN n ELSE InvalidNote

\* the validation loop, for one note: kept, replaced by its enharmonic, or
\* the function returns
ValidatedNote(n) ==
    IF n \in valid_note_names THEN n
    ELSE IF ~IsPitchName(n) THEN InvalidNote
    ELSE LET enharmonic_name == PitchName(getEnharmonic(ParsePitch(n)))
         IN  IF enharmonic_name \in valid_note_names THEN enharmonic_name
             ELSE InvalidNote

ValidatedMelody(row) ==
    LET notes == Split(row)
    IN  Force([k \in 1..Len(notes) |-> ValidatedNote(Upper(notes[k]))])

\* ---- the run

\* Pool.map cuts root_modes into chunks of ceil(len / (4 * processes)) items;
\* a worker takes a whole chunk and its results come back together
ChunkSize == (Len(root_modes) + (4 * NumWorkers) - 1) \div (4 * NumWorkers)
NumChunks == (Len(root_modes) + ChunkSize - 1) \div ChunkSize
ChunkItems(c) ==
    (((c - 1) * ChunkSize) + 1) ..
        (IF c * ChunkSize < Len(root_modes) THEN c * ChunkSize ELSE Len(root_modes))

\* what may go wrong in the workers: nothing, or work item 57 (G, Major)
\* raising at one of the calls of its try block
RunFaults == { NoRunFault,
               [item |-> 57, stage |-> "scale", at |-> 0],
               [item |-> 57, stage |-> "mapping", at |-> 0],
               [item |-> 57, stage |-> "expansion", at |-> 0],
               [item |-> 57, stage |-> "segmentation", at |-> 8] }

InitRun ==
    /\ pc = "main"
    /\ tone_row \in ToneRows
    /\ \E lex \in Lexicons : english_words = lex[1] /\ all_names = lex[2]
    /\ prefixes_set = {} /\ max_word_length = 0 /\ melody_notes = <<>>
    /\ task_return = <<>>
    /\ run_fault = NoRunFault
    /\ next_chunk = 0
    /\ running = {}
    /\ done_chunks = {}
    /\ overtaken = FALSE
    /\ pool = "none"
    /\ all_results = <<>>
    /\ single_words = {}
    /\ flat_results = <<>> /\ r_i = 0 /\ unique_results = <<>>
    /\ best_phrases = <<>> /\ printed_single_words = <<>>
    /\ MapOff /\ SegOff /\ DecOff /\ ValOff

\* a check that never finds the lexicon missing
NoLexicon_Never(words, names) == FALSE

\* not english_words and not all_names
NoLexicon(words, names) == words = {} /\ names = {}

\* main: no word and no name loaded, the file is given up
MainNoLexicon ==
    /\ pc = "main"
    /\ NoLexicon(english_words, all_names)
    /\ pc' = "no_lexicon"
    /\ UNCHANGED <<tone_row, english_words, all_names, prefixes_set, max_word_length,
                   melody_notes, task_return, run_fault, next_chunk, running, done_chunks, overtaken, pool,
                   all_results, single_words, flat_results, r_i,
                   unique_results, best_phrases, printed_single_words>>
    /\ UNCHANGED <<mapVars, segVars, decVars, valVars>>

\* main: the prefix set and the longest length, from the union of both sets
MainPrepare ==
    /\ pc = "main"
    /\ ~NoLexicon(english_words, all_names)
    /\ LET combined_words == english_words \cup all_names
       IN  /\ prefixes_set' = build_prefix_set(combined_words)
           /\ max_word_length' = MaxWordLength(combined_words)
    /\ pc' = "call"
    /\ UNCHANGED <<tone_row, english_words, all_names,
                   melody_notes, task_return, run_fault, next_chunk, running, done_chunks, overtaken, pool,
                   all_results, single_words, flat_results, r_i,
                   unique_results, best_phrases, printed_single_words>>
    /\ UNCHANGED <<mapVars, segVars, decVars, valVars>>

\* decode_tone_row_parallel up to the creation of the pool: split, upper,
\* validate; return on an invalid note
ValidateNotes ==
    /\ pc = "call"
    /\ LET notes == ValidatedMelody(tone_row)
       IN  IF \E k \in 1..Len(notes) : notes[k] = InvalidNote
           THEN pc' = "invalid_note" /\ UNCHANGED melody_notes
           ELSE pc' = "pool" /\ melody_notes' = notes
    /\ UNCHANGED <<tone_row, english_words, all_names, prefixes_set, max_word_length,
                   task_return, run_fault, next_chunk, running, done_chunks, overtaken, pool,
                   all_results, single_words, flat_results, r_i,
                   unique_results, best_phrases, printed_single_words>>
    /\ UNCHANGED <<mapVars, segVars, decVars, valVars>>

\* what process_func returns for work item k: process_root_mode on the
\* arguments bound by partial, with main's english_words as words_set and a
\* copy of the parent's single_words (the partial is pickled to the worker)
ProcessFunc(k, f) ==
    process_root_mode(root_modes[k], melody_notes, english_words,
                      prefixes_set, max_word_length,
                      all_names, english_words, single_words,
                      IF f.item = k THEN [stage |-> f.stage, at |-> f.at] ELSE NoFault)

\* pool = Pool(...); single_words = set(); pool.map(process_func, root_modes)
\* is called: the work items and their arguments are fixed from here on
PoolMapCall ==
    /\ pc = "pool"
    /\ single_words' = {}
    /\ \E returns \in {Force([k \in 1..Len(root_modes) |-> ProcessFunc(k, NoRunFault)])} :
          \E f \in RunFaults :
              /\ run_fault' = f
              /\ task_return' = [k \in 1..Len(root_modes) |->
                                    IF k = f.item THEN ProcessFunc(k, f) ELSE returns[k]]
    /\ all_results' = [k \in 1..Len(root_modes) |-> <<>>]
    /\ pool' = "open"
    /\ pc' = "map"
    /\ UNCHANGED <<tone_row, english_words, all_names, prefixes_set, max_word_length,
                   melody_notes, next_chunk, running, done_chunks, overtaken,
                   flat_results, r_i,
                   unique_results, best_phrases, printed_single_words>>
    /\ UNCHANGED <<mapVars, segVars, decVars, valVars>>

\* an idle worker takes the next chunk of root_modes
ChunkStart ==
    /\ pc = "map"
    /\ Cardinality(running) < NumWorkers
    /\ next_chunk < NumChunks
    /\ next_chunk' = next_chunk + 1
    /\ running' = running \cup {next_chunk + 1}
    /\ UNCHANGED <<pc, tone_row, english_words, all_names, prefixes_set, max_word_length,
                   melody_notes, task_return, run_fault, done_chunks, overtaken, pool, all_results,
                   single_words, flat_results, r_i,
                   unique_results, best_phrases, printed_single_words>>
    /\ UNCHANGED <<mapVars, segVars, decVars, valVars>>

\* StoreResults that fills the list in the order the chunks come back
StoreResults_AsCompleted(results_list, done, c) ==
    [k \in 1..Len(results_list) |->
        IF k - (Cardinality(done) * ChunkSize) \in 1..ChunkSize
        THEN task_return[(c - 1) * ChunkSize + (k - (Cardinality(done) * ChunkSize))].results
        ELSE results_list[k]]

\* where pool.map puts the results of chunk c: in the slots of its items
StoreResults(results_list, done, c) ==
    [k \in 1..Len(results_list) |->
        IF k \in ChunkItems(c) THEN task_return[k].results ELSE results_list[k]]

\* a worker has run process_func on the items of its chunk, in its own
\* process, and the lists it returned reach the parent; the words it added
\* to its copy of single_words stay in the worker
ChunkFinish(c) ==
    /\ pc = "map"
    /\ c \in running
    /\ all_results' = StoreResults(all_results, done_chunks, c)
    /\ done_chunks' = done_chunks \cup {c}
    /\ overtaken' = (overtaken \/ \E e \in running : e < c)
    /\ running' = running \ {c}
    /\ UNCHANGED <<pc, tone_row, english_words, all_names, prefixes_set, max_word_length,
                   melody_notes, task_return, run_fault, next_chunk, pool,
                   single_words, flat_results, r_i,
                   unique_results, best_phrases, printed_single_words>>
    /\ UNCHANGED <<mapVars, segVars, decVars, valVars>>

\* itertools.chain.from_iterable(all_results[lo..hi])
RECURSIVE Chain(_, _, _)
Chain(lists, lo, hi) ==
    IF lo > hi THEN <<>>
    ELSE IF lo = hi THEN lists[lo]
    ELSE Chain(lists, lo, (lo + hi) \div 2) \o Chain(lists, ((lo + hi) \div 2) + 1, hi)

\* a map that returns as soon as one chunk has come back
MapComplete_FirstChunk(done) == done # {}

\* pool.map blocks until the results of every chunk have come back
MapComplete(done) == done = 1..NumChunks

\* a finally clause that leaves the pool as it is
CloseAndJoin_Skipped(p) == p

\* finally: pool.close(); pool.join()
CloseAndJoin(p) == "joined"

\* pool.map returns once every item has returned; pool.close(), pool.join();
\* the results are chained
MapReturn ==
    /\ pc = "map"
    /\ MapComplete(done_chunks)
    /\ flat_results' = Chain(all_results, 1, Len(all_results))
    /\ unique_results' = <<>>
    /\ r_i' = 1
    /\ pool' = CloseAndJoin(pool)
    /\ pc' = "dedup"
    /\ UNCHANGED <<tone_row, english_words, all_names, prefixes_set, max_word_length,
                   melody_notes, task_return, run_fault, next_chunk, running, done_chunks, overtaken,
                   all_results, single_words,
                   best_phrases, printed_single_words>>
    /\ UNCHANGED <<mapVars, segVars, decVars, valVars>>

\* a key that also holds the root and the scale of the record
DedupKey_WithScale(r) == <<r.phrase, r.decoded_root_note, r.decoded_scale>>

\* key = r['phrase']
DedupKey(r) == r.phrase

\* DedupStep in which a later record of the same phrase text replaces the
\* stored one whenever it has no more words
DedupStep_LastWins(unique, r) ==
    IF ~DictHas(unique, DedupKey(r)) \/ r.num_words <= DictGet(unique, DedupKey(r), r).num_words
    THEN DictSet(unique, DedupKey(r), r)
    ELSE unique

\* one turn of the loop that removes duplicates
DedupStep(unique, r) ==
    LET key == DedupKey(r)
    IN  IF ~DictHas(unique, key) \/ r.num_words < DictGet(unique, key, r).num_words
        THEN DictSet(unique, key, r)
        ELSE unique

DedupTurn ==
    /\ pc = "dedup"
    /\ r_i <= Len(flat_results)
    /\ unique_results' = DedupStep(unique_results, flat_results[r_i])
    /\ r_i' = r_i + 1
    /\ UNCHANGED <<pc, tone_row, english_words, all_names, prefixes_set, max_word_length,
                   melody_notes, task_return, run_fault, next_chunk, running, done_chunks, overtaken, pool,
                   all_results, single_words, flat_results,
                   best_phrases, printed_single_words>>
    /\ UNCHANGED <<mapVars, segVars, decVars, valVars>>

\* unique_results.values()
DictValues(d) == Force([k \in 1..Len(d) |-> d[k][2]])

\* what the function prints for the phrases: every value of unique_results,
\* sorted by phrase; nothing when the dict is empty
ReportedPhrases(unique) ==
    IF unique # <<>> THEN SortedBy(DictValues(unique)) ELSE <<>>

\* what the function prints for the single words
ReportedSingleWords(words) ==
    IF words # {} THEN SortedSet(words) ELSE <<>>

\* the end of the loop, the two reports, the return
Report ==
    /\ pc = "dedup"
    /\ r_i > Len(flat_results)
    /\ best_phrases' = ReportedPhrases(unique_results)
    /\ printed_single_words' = ReportedSingleWords(single_words)
    /\ pc' = "done"
    /\ UNCHANGED <<tone_row, english_words, all_names, prefixes_set, max_word_length,
                   melody_notes, task_return, run_fault, next_chunk, running, done_chunks, overtaken, pool,
                   all_results, single_words, flat_results, r_i,
                   unique_results>>
    /\ UNCHANGED <<mapVars, segVars, decVars, valVars>>

Next ==
    \/ MainNoLexicon
    \/ MainPrepare
    \/ ValidateNotes
    \/ PoolMapCall
    \/ ChunkStart
    \/ \E c \in 1..NumChunks : ChunkFinish(c)
    \/ MapReturn
    \/ DedupTurn
    \/ Report

Spec == InitRun /\ [][Next]_vars

-----------------------------------------------------------------------------
(* The run with the path on which pool.map raises *)

\* all_results = pool.map(...) raises in the parent while chunks are out:
\* except Exception: all_results = []; the finally clause is entered
MapRaise ==
    /\ pc = "map"
    /\ all_results' = <<>>
    /\ pc' = "raised"
    /\ UNCHANGED <<tone_row, english_words, all_names, prefixes_set, max_word_length,
                   melody_notes, task_return, run_fault, next_chunk, running, done_chunks,
                   overtaken, pool, single_words, flat_results, r_i,
                   unique_results, best_phrases, printed_single_words>>
    /\ UNCHANGED <<mapVars, segVars, decVars, valVars>>

\* pool.close() lets the chunks already queued run: an idle worker takes
\* the next one
DrainStart ==
    /\ pc = "raised"
    /\ Cardinality(running) < NumWorkers
    /\ next_chunk < NumChunks
    /\ next_chunk' = next_chunk + 1
    /\ running' = running \cup {next_chunk + 1}
    /\ UNCHANGED <<pc, tone_row, english_words, all_names, prefixes_set, max_word_length,
                   melody_notes, task_return, run_fault, done_chunks, overtaken, pool,
                   all_results, single_words, flat_results, r_i,
                   unique_results, best_phrases, printed_single_words>>
    /\ UNCHANGED <<mapVars, segVars, decVars, valVars>>

\* a worker finishes its chunk after the map has raised: nobody takes the
\* results
DrainFinish(c) ==
    /\ pc = "raised"
    /\ c \in running
    /\ done_chunks' = done_chunks \cup {c}
    /\ overtaken' = (overtaken \/ \E e \in running : e < c)
    /\ running' = running \ {c}
    /\ UNCHANGED <<pc, tone_row, english_words, all_names, prefixes_set, max_word_length,
                   melody_notes, task_return, run_fault, next_chunk, pool,
                   all_results, single_words, flat_results, r_i,
                   unique_results, best_phrases, printed_single_words>>
    /\ UNCHANGED <<mapVars, segVars, decVars, valVars>>

\* pool.join() returns once the workers have run out of chunks and left; the
\* empty all_results is chained
JoinAfterRaise ==
    /\ pc = "raised"
    /\ MapComplete(done_chunks)
    /\ pool' = CloseAndJoin(pool)
    /\ flat_results' = Chain(all_results, 1, Len(all_results))
    /\ unique_results' = <<>>
    /\ r_i' = 1
    /\ pc' = "dedup"
    /\ UNCHANGED <<tone_row, english_words, all_names, prefixes_set, max_word_length,
                   melody_notes, task_return, run_fault, next_chunk, running, done_chunks,
                   overtaken, all_results, single_words,
                   best_phrases, printed_single_words>>
    /\ UNCHANGED <<mapVars, segVars, decVars, valVars>>

\* the steps once the pool exists: every worker that holds a chunk is
\* scheduled and finishes it, and the parent, which only waits for them,
\* runs on when they are through
PoolProgress ==
    \/ ChunkStart
    \/ \E c \in 1..NumChunks : ChunkFinish(c)
    \/ MapReturn
    \/ DrainStart
    \/ \E c \in 1..NumChunks : DrainFinish(c)
    \/ JoinAfterRaise
    \/ DedupTurn
    \/ Report

NextLive ==
    \/ MainNoLexicon
    \/ MainPrepare
    \/ ValidateNotes
    \/ PoolMapCall
    \/ PoolProgress
    \/ MapRaise

\* the tone rows of these runs: no note, two notes, an invalid note
LiveToneRows == { JoinNames(<<>>),
                  JoinNames(<< <<"A">>, <<"A">> >>),
                  JoinNames(<< <<"A">>, <<"H">> >>) }

InitLive == InitRun /\ tone_row \in LiveToneRows

SpecLive == InitLive /\ [][NextLive]_vars /\ WF_vars(PoolProgress)

-----------------------------------------------------------------------------
(* One call of process_root_mode, statement by statement, on the scales,    *)
(* melodies and word sets below.  words_set, all_names and english_words    *)
(* are separate arguments of the function and are drawn separately.         *)

\* (root, mode) items of main's catalog: C Major, C# Major, F Major, G Major
DecScales == {root_modes[1], root_modes[9], root_modes[41], root_modes[57]}

DecMelodies == {
    <<>>,
    << <<"A">> >>,
    << <<"B">> >>,
    << <<"F">> >>,
    << <<"A">>, <<"A">> >>,
    << <<"A">>, <<"H">> >>,
    << <<"A", "#">>, <<"A">> >>,
    << <<"C", "#">>, <<"C">> >>,
    << <<"C">>, <<"A">>, <<"F">> >>,
    << <<"E">>, <<"C">>, <<"A">> >> }

\* <<words_set, all_names, english_words>>
DecLexicons == {
    << { <<"c", "a", "t">> }, {}, { <<"c", "a", "t">> } >>,
    << { <<"i">>, <<"x">> }, {}, { <<"i">> } >>,
    << { <<"i">>, <<"x">>, <<"p", "i">> }, { <<"p", "i">> }, { <<"x">> } >>,
    << { <<"i">>, <<"p", "i">>, <<"r">>, <<"h", "m">>, <<"d">> }, { <<"p", "i", "p">> },
       { <<"i">>, <<"p", "i">>, <<"r">>, <<"h", "m">>, <<"d">> } >>,
    << { <<"i">>, <<"p", "i">>, <<"h", "m">> }, { <<"p", "i", "p">> },
       { <<"i">>, <<"p", "i">>, <<"h", "m">> } >> }

DecFaults == { NoFault,
               [stage |-> "scale", at |-> 0],
               [stage |-> "mapping", at |-> 0],
               [stage |-> "expansion", at |-> 0],
               [stage |-> "segmentation", at |-> 3] }

InitDec ==
    /\ dpc = "scale"
    /\ d_root_mode \in DecScales
    /\ d_melody \in DecMelodies
    /\ \E lex \in DecLexicons :
          d_words_set = lex[1] /\ d_names = lex[2] /\ d_english = lex[3]
    /\ d_fault \in DecFaults
    /\ d_mapping = <<>> /\ d_combinations = [truthy |-> FALSE, items |-> <<>>]
    /\ d_i = 0 /\ d_phrase = None /\ d_valid = FALSE /\ d_results = <<>>
    /\ d_raised = FALSE /\ d_return = <<>>
    /\ MapOff /\ SegOff /\ RunOff /\ ValOff

\* decode_sc = decode_mode_class(decode_root)
DecScale ==
    /\ dpc = "scale"
    /\ dpc' = IF d_fault.stage = "scale" THEN "except" ELSE "mapping"
    /\ UNCHANGED <<d_root_mode, d_melody, d_words_set, d_names, d_english, d_fault,
                   d_mapping, d_combinations, d_i, d_phrase, d_valid, d_results,
                   d_raised, d_return>>
    /\ UNCHANGED <<mapVars, segVars, runVars, valVars>>

\* mapping = create_letter_note_mapping(decode_sc), which returns {} when
\* pitchFromDegree raises; if not mapping: return []
DecMapping ==
    /\ dpc = "mapping"
    /\ LET m == IF d_fault.stage = "mapping" THEN <<>>
                ELSE create_letter_note_mapping(d_root_mode)
       IN  /\ d_mapping' = m
           /\ IF m = <<>>
              THEN dpc' = "returned" /\ d_return' = <<>>
              ELSE dpc' = "decode" /\ UNCHANGED d_return
    /\ UNCHANGED <<d_root_mode, d_melody, d_words_set, d_names, d_english, d_fault,
                   d_combinations, d_i, d_phrase, d_valid, d_results, d_raised>>
    /\ UNCHANGED <<mapVars, segVars, runVars, valVars>>

\* note_letter_map = reverse_mapping(mapping); decoded_combinations =
\* decode_melody(note_letter_map, melody_notes); if not decoded_combinations:
\* return []; results = []
DecDecode ==
    /\ dpc = "decode"
    /\ IF d_fault.stage = "expansion"
       THEN dpc' = "except" /\ UNCHANGED <<d_combinations, d_i, d_return>>
       ELSE LET comb == decode_melody(reverse_mapping(d_mapping), d_melody)
            IN  /\ d_combinations' = comb
                /\ IF ~comb.truthy
                   THEN dpc' = "returned" /\ d_return' = <<>> /\ UNCHANGED d_i
                   ELSE dpc' = "loop" /\ d_i' = 1 /\ UNCHANGED d_return
    /\ UNCHANGED <<d_root_mode, d_melody, d_words_set, d_names, d_english, d_fault,
                   d_mapping, d_phrase, d_valid, d_results, d_raised>>
    /\ UNCHANGED <<mapVars, segVars, runVars, valVars>>

\* one turn of: for decoded_chars in decoded_combinations
DecCandidate ==
    /\ dpc = "loop"
    /\ d_i <= Len(d_combinations.items)
    /\ IF d_fault.stage = "segmentation" /\ d_fault.at = d_i
       THEN dpc' = "except" /\ UNCHANGED <<d_i, d_phrase, d_valid, d_results>>
       ELSE LET phrase == segment_into_words(d_combinations.items[d_i], d_words_set,
                              build_prefix_set(d_english \cup d_names),
                              MaxWordLength(d_words_set \cup d_english \cup d_names))
                truthy == phrase # None /\ phrase # <<>>
                valid  == is_valid_phrase(phrase, d_names, d_english)
            IN  /\ d_phrase' = phrase
                /\ d_valid' = IF truthy THEN valid ELSE d_valid
                /\ d_results' = IF truthy /\ valid
                                THEN Append(d_results, ResultRecord(phrase, d_root_mode))
                                ELSE d_results
                /\ d_i' = d_i + 1
                /\ UNCHANGED dpc
    /\ UNCHANGED <<d_root_mode, d_melody, d_words_set, d_names, d_english, d_fault,
                   d_mapping, d_combinations, d_raised, d_return>>
    /\ UNCHANGED <<mapVars, segVars, runVars, valVars>>

\* the loop is over: return results
DecReturn ==
    /\ dpc = "loop"
    /\ d_i > Len(d_combinations.items)
    /\ d_return' = d_results
    /\ dpc' = "returned"
    /\ UNCHANGED <<d_root_mode, d_melody, d_words_set, d_names, d_english, d_fault,
                   d_mapping, d_combinations, d_i, d_phrase, d_valid, d_results,
                   d_raised>>
    /\ UNCHANGED <<mapVars, segVars, runVars, valVars>>

\* except Exception as e: logging.error(...); return []
DecExcept ==
    /\ dpc = "except"
    /\ d_raised' = TRUE
    /\ d_return' = ExceptReturn(d_results)
    /\ dpc' = "returned"
    /\ UNCHANGED <<d_root_mode, d_melody, d_words_set, d_names, d_english, d_fault,
                   d_mapping, d_combinations, d_i, d_phrase, d_valid, d_results>>
    /\ UNCHANGED <<mapVars, segVars, runVars, valVars>>

NextDec ==
    \/ DecScale
    \/ DecMapping
    \/ DecDecode
    \/ DecCandidate
    \/ DecReturn
    \/ DecExcept

SpecDec == InitDec /\ [][NextDec]_vars

-----------------------------------------------------------------------------
(* Claims about the scale mapper *)

\* the value a dict holds for a key it has
DictAt(d, k) == d[CHOOSE i \in 1..Len(d) : d[i][1] = k][2]

SeqToSet(q) == {q[i] : i \in 1..Len(q)}

LetterSet == SeqToSet(letters)

\* C9: for every (root, mode) of the catalog, create_letter_note_mapping
\* assigns all 26 letters, the letter at alphabet index i getting the pitch
\* of scale degree 1 + (i mod 7), and reverse_mapping is a left-inverse:
\* every letter l is in the group of mapping[l] and in no other group.
C9_MappingTotalAndLeftInverse ==
    /\ \A i \in 0..(idx - 1) :
          /\ DictHas(mapping, letters[i + 1])
          /\ DictAt(mapping, letters[i + 1])
                = PitchName(pitchFromDegree(sc, 1 + (i % 7)))
    /\ mpc \in {"reverse", "done"} =>
          /\ DictKeys(mapping) = LetterSet
          /\ Len(mapping) = 26
    /\ mpc = "done" =>
          \A l \in LetterSet :
              \A g \in 1..Len(note_to_letters) :
                  (l \in SeqToSet(note_to_letters[g][2]))
                      <=> (note_to_letters[g][1] = DictAt(mapping, l))

\* C9 happens: C Major is mapped and inverted, and C holds a, h, o, v
C9_Witness ==
    /\ mpc = "done"
    /\ sc = << <<"C">>, "Major" >>
    /\ DictHas(note_to_letters, <<"C">>)
    /\ DictAt(note_to_letters, <<"C">>) = <<"a", "h", "o", "v">>

GroupsOfSize(n) ==
    {g \in 1..Len(note_to_letters) : Len(note_to_letters[g][2]) = n}

RECURSIVE SumOfSizes(_, _)
SumOfSizes(d, k) == IF k = 0 THEN 0 ELSE Len(d[k][2]) + SumOfSizes(d, k - 1)

\* C10: for every (root, mode) of the catalog, the inverse mapping has
\* exactly 7 distinct pitch keys; every letter group has 3 or 4 letters,
\* exactly 5 groups have 4 letters and 2 have 3, and the sizes sum to 26.
C10_SevenGroupsOfThreeOrFour ==
    mpc = "done" =>
        /\ Len(note_to_letters) = 7
        /\ Cardinality(DictKeys(note_to_letters)) = 7
        /\ \A g \in 1..Len(note_to_letters) : Len(note_to_letters[g][2]) \in {3, 4}
        /\ Cardinality(GroupsOfSize(4)) = 5
        /\ Cardinality(GroupsOfSize(3)) = 2
        /\ SumOfSizes(note_to_letters, Len(note_to_letters)) = 26

\* C10 happens: a scale whose spelling needs a double sharp (A# Major) is
\* mapped and inverted, and its first degree holds four letters
C10_Witness ==
    /\ mpc = "done"
    /\ sc = << <<"A", "#">>, "Major" >>
    /\ Len(note_to_letters[1][2]) = 4
    /\ Len(note_to_letters[7][2]) = 3

-----------------------------------------------------------------------------
(* Claims about the segmenter *)

RECURSIVE Concat(_)
Concat(phrase) == IF phrase = <<>> THEN <<>> ELSE Head(phrase) \o Concat(Tail(phrase))

\* the pieces of s cut at the points of the set cuts (a subset of 1..Len(s)-1)
Pieces(s, cuts) ==
    LET ends == cuts \cup {Len(s)}
    IN  {SubSeq(s, (IF \E c \in cuts : c < e
                     THEN (CHOOSE c \in cuts : c < e /\ \A d \in cuts : d < e => d <= c)
                     ELSE 0) + 1, e) : e \in ends}

\* the numbers of words of the decompositions of s into members of W
DecompositionCounts(s, W) ==
    IF s = <<>> THEN {0}
    ELSE {Cardinality(cuts) + 1 : cuts \in {c \in SUBSET (1..(Len(s) - 1)) : Pieces(s, c) \subseteq W}}

\* C1: for every candidate string s and every word set, segment_into_words
\* returns a decomposition whose word count is the minimum over all
\* decompositions of s into members of the word set, and returns None
\* exactly when s is non-empty and no such decomposition exists.
C1_MinimalWordCount ==
    spc = "returned" =>
        LET counts == DecompositionCounts(decoded_chars, seg_words)
        IN  /\ (seg_result = None) <=> (decoded_chars # <<>> /\ counts = {})
            /\ seg_result # None =>
                  /\ Len(seg_result) \in counts
                  /\ \A c \in counts : Len(seg_result) <= c

\* C1 happens: "abba" has a decomposition of three words (a, bb, a) and one
\* of two (ab, ba), and the one of two words is returned
C1_Witness ==
    /\ spc = "returned"
    /\ decoded_chars = <<"a", "b", "b", "a">>
    /\ {2, 3} \subseteq DecompositionCounts(decoded_chars, seg_words)
    /\ seg_result = << <<"a", "b">>, <<"b", "a">> >>

\* C2: whenever segment_into_words returns a phrase p for candidate s, the
\* concatenation of p's words in order equals s exactly and every word of p
\* is a member of the word set.
C2_RoundTrip ==
    (spc = "returned" /\ seg_result # None) =>
        /\ Concat(seg_result) = decoded_chars
        /\ \A k \in 1..Len(seg_result) : seg_result[k] \in seg_words

\* C2 happens: a phrase of three words is returned
C2_Witness ==
    /\ spc = "returned"
    /\ seg_result # None
    /\ Len(seg_result) = 3
    /\ decoded_chars = <<"a", "b", "b", "a">>

\* what segment_into_words returns for the string and max_word_length of
\* the call when the entries of extra are added to its word set
SegmentedWith(extra) ==
    segment_into_words(decoded_chars, seg_words \cup extra,
                       build_prefix_set(seg_words \cup extra \cup seg_names),
                       MaxWordLength(seg_words \cup seg_names))

\* the sets of entries that can be added
Additions == (SUBSET (WordUniverse \cup NameUniverse)) \ {{}}

\* C19: for a fixed candidate string and fixed max_word_length, adding
\* entries to the word set never increases the word count returned by
\* segment_into_words, and never turns a found decomposition into None.
C19_AddingWordsNeverHurts ==
    (spc = "returned" /\ seg_result # None) =>
        \A extra \in Additions :
            /\ SegmentedWith(extra) # None
            /\ Len(SegmentedWith(extra)) <= Len(seg_result)

\* C19 happens: "aab" was cut into a + ab, and with the entry aab added it
\* is one word; max_word_length is 4 in both calls
C19_Witness ==
    /\ spc = "returned"
    /\ decoded_chars = <<"a", "a", "b">>
    /\ seg_words = { <<"a">>, <<"a", "b">> }
    /\ seg_names = { <<"a", "b", "b", "a">> }
    /\ Len(seg_result) = 2
    /\ SegmentedWith({ <<"a", "a", "b">> }) = << <<"a", "a", "b">> >>

-----------------------------------------------------------------------------
(* Claims about the run *)

\* the candidate strings of work item k, as process_root_mode expands them
CandidatesOf(k) ==
    decode_melody(reverse_mapping(create_letter_note_mapping(root_modes[k])),
                  melody_notes).items

\* the phrase texts work item k returned
PhrasesOf(k) == {all_results[k][i].phrase : i \in 1..Len(all_results[k])}

\* C3: in the run driven by main, a substring of a candidate string that is
\* a proper name but no dictionary word is accepted as a word by the
\* segmenter (segmentation is over the combined set); so a candidate that
\* is such a name as a whole is returned as a one-word phrase.
C3_NamesAreSegmented ==
    pc = "done" =>
        \A k \in 1..Len(root_modes) :
            \A name \in all_names \ english_words :
                (\E i \in 1..Len(CandidatesOf(k)) : CandidatesOf(k)[i] = name)
                    => name \in PhrasesOf(k)

\* the records left after deduplication
UniqueRecords == {unique_results[i][2] : i \in 1..Len(unique_results)}

\* C4: the reported output set is exactly the deduplicated records whose
\* word count equals the global minimum word count over the deduplicated
\* set; no record with a larger word count is reported.
C4_OnlyGlobalMinimum ==
    pc = "done" =>
        SeqToSet(best_phrases) =
            {r \in UniqueRecords : \A u \in UniqueRecords : r.num_words <= u.num_words}

\* the records of all work items
AllRecords ==
    UNION {{all_results[k][i] : i \in 1..Len(all_results[k])} : k \in 1..Len(all_results)}

\* C5: at the end of decode_tone_row_parallel the reported set of
\* single-word phrases contains the phrase of every record with word count
\* 1 produced by any work item of the pool, and nothing else.
C5_SingleWordsReported ==
    pc = "done" =>
        SeqToSet(printed_single_words) = {r.phrase : r \in {x \in AllRecords : x.num_words = 1}}

\* C6: a run whose melody is the empty sequence ends in the precondition
\* error before any work item is dispatched; it does not go through
\* dispatching and report zero results.
C6_EmptyMelodyRejected ==
    Split(tone_row) = <<>> => (next_chunk = 0 /\ pc \notin {"map", "dedup", "done"})

\* C7: after collecting, no two records of the final output have the same
\* phrase text, and for each phrase text the retained record has the lowest
\* word count among all merged records with that text.
C7_DedupByPhraseText ==
    /\ pc = "dedup" =>
          \A i, j \in 1..Len(unique_results) :
              unique_results[i][2].phrase = unique_results[j][2].phrase => i = j
    /\ pc = "done" =>
          /\ \A i, j \in 1..Len(best_phrases) :
                best_phrases[i].phrase = best_phrases[j].phrase => i = j
          /\ \A f \in 1..Len(flat_results) :
                \E i \in 1..Len(best_phrases) :
                    /\ best_phrases[i].phrase = flat_results[f].phrase
                    /\ best_phrases[i].num_words <= flat_results[f].num_words

\* C7 happens: the same phrase came from several work items and the output
\* keeps one record of it beside other phrases
C7_Witness ==
    /\ pc = "done"
    /\ Len(best_phrases) >= 2
    /\ Len(flat_results) > Len(best_phrases)
    /\ \E f, g \in 1..Len(flat_results) :
          /\ f # g
          /\ flat_results[f].phrase = flat_results[g].phrase
          /\ flat_results[f].decoded_root_note # flat_results[g].decoded_root_note

\* C8: for a fixed melody, lexicon and work-item list, the final output
\* (records, their root/mode attribution and their order) is the same for
\* every interleaving and completion order of the work items: every slot of
\* the collected list holds the return of its own work item, and the output
\* is the one list those returns determine - ascending by phrase, one
\* record per phrase text, the first in work-item order among the records
\* of that text.
C8_OutputIndependentOfCompletionOrder ==
    pc = "done" =>
        LET ret == [k \in 1..Len(root_modes) |-> task_return[k].results]
            inOrder == Chain(ret, 1, Len(root_modes))
        IN  /\ \A k \in 1..Len(root_modes) : all_results[k] = ret[k]
            /\ {best_phrases[i].phrase : i \in 1..Len(best_phrases)}
                  = {inOrder[f].phrase : f \in 1..Len(inOrder)}
            /\ \A i \in 1..Len(best_phrases) :
                  /\ \E f \in 1..Len(inOrder) :
                        /\ inOrder[f] = best_phrases[i]
                        /\ \A g \in 1..(f - 1) : inOrder[g].phrase # inOrder[f].phrase
                  /\ i > 1 => StrLess(best_phrases[i - 1].phrase, best_phrases[i].phrase)

\* C8 happens: a chunk came back before one handed out earlier, both held
\* the phrase "pi", and the output names the earlier work item, G Major
C8_Witness ==
    /\ pc = "done"
    /\ overtaken
    /\ \E i \in 1..Len(best_phrases) :
          /\ best_phrases[i].phrase = <<"p", "i">>
          /\ best_phrases[i].decoded_root_note = <<"G">>
          /\ best_phrases[i].decoded_scale = "Major"
    /\ \E f \in 1..Len(flat_results) :
          /\ flat_results[f].phrase = <<"p", "i">>
          /\ flat_results[f].decoded_root_note = <<"G", "#">>

-----------------------------------------------------------------------------
(* One call of is_valid_phrase, on phrases of up to two words *)

ValWordUniverse == { <<"a">>, <<"i">>, <<"x">>, <<"p", "i">>, <<"c", "a", "t">> }

InitVal ==
    /\ vpc = "call"
    /\ v_phrase \in UNION {[1..n -> ValWordUniverse] : n \in 0..2}
    /\ v_names \in SUBSET { <<"x">>, <<"p", "i">> }
    /\ v_words \in SUBSET { <<"a">>, <<"i">>, <<"x">>, <<"c", "a", "t">> }
    /\ v_result = FALSE
    /\ MapOff /\ SegOff /\ RunOff /\ DecOff

\* is_valid_phrase(phrase, all_names, english_words)
ValidCall ==
    /\ vpc = "call"
    /\ v_result' = is_valid_phrase(v_phrase, v_names, v_words)
    /\ vpc' = "returned"
    /\ UNCHANGED <<v_phrase, v_names, v_words>>
    /\ UNCHANGED <<mapVars, segVars, runVars, decVars>>

NextVal == ValidCall

SpecVal == InitVal /\ [][NextVal]_vars

-----------------------------------------------------------------------------
(* Claims about one call of process_root_mode *)

\* the letters a mapping gives the pitch name
LettersNamed(m, name) == {l \in LetterSet : DictAt(m, l) = name}

\* the letter set of melody note n under mapping m: the letters of its name,
\* or, when there are none, the letters of its enharmonic name
LettersFor(m, n) ==
    IF LettersNamed(m, n) # {} THEN LettersNamed(m, n)
    ELSE IF IsPitchName(n) THEN LettersNamed(m, PitchName(getEnharmonic(ParsePitch(n))))
    ELSE {}

\* decode_melody has returned in this call
DecodeReturned ==
    /\ dpc \in {"loop", "returned", "except"}
    /\ d_mapping # <<>>
    /\ d_fault.stage # "expansion"

RECURSIVE ProductOfSizes(_, _, _)
ProductOfSizes(m, melody, k) ==
    IF k > Len(melody) THEN 1
    ELSE Cardinality(LettersFor(m, melody[k])) * ProductOfSizes(m, melody, k + 1)

\* C11: when every melody note resolves to a non-empty letter set,
\* decode_melody yields exactly the Cartesian product of the per-position
\* letter sets in melody order: product-of-the-sizes many candidates, all
\* distinct, each of the melody's length, the i-th letter of each in the
\* i-th note's letter set.
C11_CartesianProduct ==
    (DecodeReturned /\ \A k \in 1..Len(d_melody) : LettersFor(d_mapping, d_melody[k]) # {})
        => LET items == d_combinations.items
           IN  /\ d_combinations.truthy
               /\ Len(items) = ProductOfSizes(d_mapping, d_melody, 1)
               /\ \A a, b \in 1..Len(items) : items[a] = items[b] => a = b
               /\ \A a \in 1..Len(items) :
                     /\ Len(items[a]) = Len(d_melody)
                     /\ \A k \in 1..Len(d_melody) :
                           items[a][k] \in LettersFor(d_mapping, d_melody[k])

\* C11 happens: A# and A under F Major, A# through its enharmonic B-, give
\* 4 * 4 candidates
C11_Witness ==
    /\ DecodeReturned
    /\ d_root_mode = << <<"F">>, "Major" >>
    /\ d_melody = << <<"A", "#">>, <<"A">> >>
    /\ LettersFor(d_mapping, <<"A", "#">>) = {"d", "k", "r", "y"}
    /\ Len(d_combinations.items) = 16

\* the call of the scenario: (C, Major), the dictionary {"cat"}, nothing raises
CatCall(melody) ==
    /\ dpc = "returned"
    /\ d_root_mode = << <<"C">>, "Major" >>
    /\ d_melody = melody
    /\ d_words_set = { <<"c", "a", "t">> } /\ d_english = { <<"c", "a", "t">> }
    /\ d_names = {}
    /\ d_fault = NoFault

CatRecord ==
    [phrase |-> <<"c", "a", "t">>, decoded_root_note |-> <<"C">>,
     decoded_scale |-> "Major", num_words |-> 1]

\* C12 (as stated): melody [C, A, F] with a dictionary containing only "cat"
\* yields the record (phrase "cat", root C, mode Major, 1 word), where
\* (C, Major) assigns the letters a, h, o, v to note C.
C12_CatFromCAF ==
    CatCall(<< <<"C">>, <<"A">>, <<"F">> >>)
        => /\ LettersNamed(d_mapping, <<"C">>) = {"a", "h", "o", "v"}
           /\ d_return = <<CatRecord>>

\* C12 (amended): melody [E, C, A] with a dictionary containing only "cat"
\* yields exactly the record (phrase "cat", root C, mode Major, 1 word),
\* where (C, Major) assigns a, h, o, v to C, the letter c to E and t to A.
C12_CatFromECA ==
    CatCall(<< <<"E">>, <<"C">>, <<"A">> >>)
        => /\ LettersNamed(d_mapping, <<"C">>) = {"a", "h", "o", "v"}
           /\ "c" \in LettersNamed(d_mapping, <<"E">>)
           /\ "t" \in LettersNamed(d_mapping, <<"A">>)
           /\ d_return = <<CatRecord>>

\* C12 happens: the call on [E, C, A] has returned, after 48 candidates
C12_Witness ==
    /\ CatCall(<< <<"E">>, <<"C">>, <<"A">> >>)
    /\ d_i = 49
    /\ Len(d_return) = 1

-----------------------------------------------------------------------------
(* Claims about errors in the work items of the run *)

\* whether the call of run_fault is reached in work item k
FaultHits(k) ==
    /\ k = run_fault.item
    /\ \/ run_fault.stage \in {"scale", "mapping", "expansion"}
       \/ /\ run_fault.stage = "segmentation"
          /\ decode_melody(reverse_mapping(create_letter_note_mapping(root_modes[k])),
                           melody_notes).truthy
          /\ run_fault.at <= Len(CandidatesOf(k))

\* C13: a work item that raises an error (at scale construction, mapping,
\* expansion or segmentation) never aborts the run: the run ends with that
\* item contributing zero records, none of the records built before the
\* error either, every other item contributing exactly the records it
\* returns when nothing raises, and the output made of those.
C13_FailedItemIsSkipped ==
    pc = "done" =>
        /\ \A k \in 1..Len(root_modes) :
              all_results[k] = IF FaultHits(k) THEN <<>>
                               ELSE ProcessFunc(k, NoRunFault).results
        /\ {best_phrases[i].phrase : i \in 1..Len(best_phrases)}
              = UNION {PhrasesOf(k) : k \in 1..Len(root_modes)}

\* C13 happens: item 57 (G, Major) raised in the eighth turn of its loop,
\* after it had built the record of "i i" in the sixth; the run is done,
\* slot 57 is empty and the output holds the records of the other items
C13_Witness ==
    /\ pc = "done"
    /\ run_fault = [item |-> 57, stage |-> "segmentation", at |-> 8]
    /\ FaultHits(57)
    /\ ProcessFunc(57, NoRunFault).results # <<>>
    /\ ProcessFunc(57, NoRunFault).results[1].phrase = <<"i", " ", "i">>
    /\ all_results[57] = <<>>
    /\ \E i \in 1..Len(best_phrases) : best_phrases[i].phrase = <<"i", " ", "i">>

-----------------------------------------------------------------------------
(* Claims about the validation of the input *)

\* the tokens of the raw melody, in upper case
Tokens == LET raw == Split(tone_row) IN [k \in 1..Len(raw) |-> Upper(raw[k])]

\* a token that is one of the 12 canonical names, or a pitch name whose
\* enharmonic equivalent is one
Normalizable(t) ==
    \/ t \in valid_note_names
    \/ /\ IsPitchName(t)
       /\ PitchName(getEnharmonic(ParsePitch(t))) \in valid_note_names

\* C14: if any token of the raw input melody cannot be normalized to a
\* valid pitch name, decode_tone_row_parallel aborts the whole run before
\* the worker pool is created: no work item is processed and no result is
\* reported.
C14_InvalidTokenAbortsBeforePool ==
    (\E k \in 1..Len(Tokens) : ~Normalizable(Tokens[k]))
        => /\ pc \in {"main", "no_lexicon", "call", "invalid_note"}
           /\ task_return = <<>> /\ next_chunk = 0 /\ running = {}
           /\ all_results = <<>> /\ flat_results = <<>>
           /\ best_phrases = <<>> /\ printed_single_words = <<>>

\* C14 happens: the function has returned on the token H, which is no pitch
C14_Witness ==
    /\ pc = "invalid_note"
    /\ Tokens = << <<"A">>, <<"H">> >>
    /\ english_words # {}

\* C15: every melody token handed to the work items is one of the 12
\* canonical spellings; a token outside that set has been replaced by its
\* enharmonic equivalent, of the same pitch class (E# becomes F, C- becomes
\* B), and a canonical token is kept.
C15_CanonicalSpellings ==
    pc \in {"pool", "map", "dedup", "done"} =>
        /\ Len(melody_notes) = Len(Tokens)
        /\ \A k \in 1..Len(Tokens) :
              /\ melody_notes[k] \in valid_note_names
              /\ PitchClassOf(ParsePitch(melody_notes[k])) = PitchClassOf(ParsePitch(Tokens[k]))
              /\ Tokens[k] \in valid_note_names => melody_notes[k] = Tokens[k]
              /\ Tokens[k] = <<"E", "#">> => melody_notes[k] = <<"F">>
              /\ Tokens[k] = <<"C", "-">> => melody_notes[k] = <<"B">>

\* C15 happens: the tone row "E# C-" is dispatched as F, B
C15_Witness ==
    /\ pc = "map"
    /\ Tokens = << <<"E", "#">>, <<"C", "-">> >>
    /\ melody_notes = << <<"F">>, <<"B">> >>
    /\ next_chunk > 0

\* C16: if the union of the dictionary-word set and the proper-name set is
\* empty, the run aborts before any (root, mode) work item is enumerated or
\* dispatched.
C16_EmptyLexiconAborts ==
    (pc # "off" /\ english_words \cup all_names = {})
        => /\ pc \in {"main", "no_lexicon"}
           /\ melody_notes = <<>> /\ task_return = <<>>
           /\ next_chunk = 0 /\ running = {} /\ done_chunks = {}
           /\ all_results = <<>> /\ best_phrases = <<>>

\* C16 happens: main has given the file up, with a melody it could decode
C16_Witness ==
    /\ pc = "no_lexicon"
    /\ english_words = {} /\ all_names = {}
    /\ Tokens = << <<"A">>, <<"A">> >>

-----------------------------------------------------------------------------
(* Claims about is_valid_phrase *)

\* C17: is_valid_phrase returns true exactly when the phrase is non-empty,
\* every word is a member of the dictionary-word set or the proper-name set,
\* and every single-character word is "a" or "i"; so with the dictionary
\* {"i"} and no names the phrase [i] is valid and the phrase [x] is not.
C17_ValidExactlyWhen ==
    vpc = "returned" =>
        /\ v_result <=>
              /\ Len(v_phrase) > 0
              /\ \A w \in SeqToSet(v_phrase) :
                    /\ w \in v_words \cup v_names
                    /\ Len(w) = 1 => w \in { <<"a">>, <<"i">> }
        /\ (v_words = { <<"i">> } /\ v_names = {}) =>
              /\ v_phrase = << <<"i">> >> => v_result
              /\ v_phrase = << <<"x">> >> => ~v_result

\* C17 happens: the one-letter word x is in both lists and the phrase
\* [pi, x] has been refused for it
C17_Witness ==
    /\ vpc = "returned"
    /\ v_phrase = << <<"p", "i">>, <<"x">> >>
    /\ <<"x">> \in v_words /\ <<"p", "i">> \in v_names
    /\ ~v_result

-----------------------------------------------------------------------------
(* Claims about a melody that a scale cannot spell *)

\* C18: if some melody note has no letters under a (root, mode) scale, even
\* after the enharmonic fallback, decode_melody yields no candidate at all
\* and the work item contributes zero records without raising an error.
C18_UnmappedNoteGivesNothing ==
    (/\ d_fault = NoFault
     /\ dpc \in {"loop", "returned", "except"}
     /\ d_mapping # <<>>
     /\ \E k \in 1..Len(d_melody) : LettersFor(d_mapping, d_melody[k]) = {})
        => /\ dpc = "returned"
           /\ ~d_combinations.truthy
           /\ d_combinations.items = <<>>
           /\ d_results = <<>> /\ d_return = <<>>
           /\ ~d_raised

\* C18 happens: under (C, Major) the note C# has no letters, nor has its
\* enharmonic D-, while the other note, C, has four
C18_Witness ==
    /\ dpc = "returned"
    /\ d_fault = NoFault
    /\ d_root_mode = << <<"C">>, "Major" >>
    /\ d_melody = << <<"C", "#">>, <<"C">> >>
    /\ LettersFor(d_mapping, <<"C", "#">>) = {}
    /\ Cardinality(LettersFor(d_mapping, <<"C">>)) = 4
    /\ <<"c">> \notin d_words_set
    /\ d_return = <<>>

-----------------------------------------------------------------------------
(* Claims about the order of the steps of a run *)

\* the steps of a run, in their order
RunOrder == { <<"main", "no_lexicon">>, <<"main", "call">>,
              <<"call", "invalid_note">>, <<"call", "pool">>,
              <<"pool", "map">>, <<"map", "dedup">>, <<"dedup", "done">> }

\* C20: in every run, no deduplication, ranking or sorting step happens
\* before every dispatched work item has returned its records: the run goes
\* from dispatching to collecting, to the sorted output, to done, in that
\* order; nothing is flattened, deduplicated or sorted while a chunk is
\* running or waiting; and what a worker returns for an item is fixed when
\* the items are dispatched, whatever the other workers have returned.
C20_CollectBeforeRank ==
    [][ /\ pc' # pc => <<pc, pc'>> \in RunOrder
        /\ (flat_results' # flat_results \/ unique_results' # unique_results
              \/ best_phrases' # best_phrases \/ printed_single_words' # printed_single_words)
              => /\ done_chunks = 1..NumChunks
                 /\ running = {}
                 /\ next_chunk = NumChunks
                 /\ all_results' = all_results
        /\ pc' \in {"dedup", "done"} => done_chunks' = 1..NumChunks /\ running' = {}
        /\ task_return' # task_return => pc = "pool"
        /\ all_results' # all_results =>
              \/ pc = "pool"
              \/ /\ pc = "map"
                 /\ \A k \in 1..Len(all_results) :
                       \/ all_results'[k] = all_results[k]
                       \/ /\ all_results'[k] = task_return[k].results
                          /\ \E c \in running : k \in ChunkItems(c)
      ]_vars

\* C20 happens: every chunk is back, one of them out of turn, and the
\* deduplication loop has taken its first records
C20_Witness ==
    /\ pc = "dedup"
    /\ overtaken
    /\ done_chunks = 1..NumChunks /\ running = {}
    /\ r_i > 2
    /\ Len(unique_results) >= 2

\* ---------------------------------------------------------------------------
\* C21: for every scale and every accepted melody note, decode_melody finds a
\* non-empty letter set exactly when the note's pitch class is one of the
\* pitch classes of the scale, whatever spelling the scale uses for it.
ScalePitchClasses(m) == {PitchClassOf(ParsePitch(m[i][2])) : i \in 1..Len(m)}

C21_LettersIffPitchClassInScale ==
    (/\ DecodeReturned
     /\ d_fault = NoFault)
        => \A k \in 1..Len(d_melody) :
              d_melody[k] \in valid_note_names
                 => (LettersOfNote(reverse_mapping(d_mapping), d_melody[k]) # <<>>
                        <=> PitchClassOf(ParsePitch(d_melody[k]))
                               \in ScalePitchClasses(d_mapping))

\* ---------------------------------------------------------------------------
\* the decomposition stored for end index i: dp[i] depends on the first i
\* characters only
StoredAt(i) ==
    segment_into_words(SubSeq(decoded_chars, 1, i), seg_words,
                       build_prefix_set(seg_words \cup seg_names),
                       MaxWordLength(seg_words \cup seg_names))

\* the split points j scanned for end index i at which a decomposition ends
\* and the last piece is a word
SplitPoints(i) ==
    {j \in Max(0, i - MaxWordLength(seg_words \cup seg_names))..(i - 1) :
        StoredAt(j) # None /\ SubSeq(decoded_chars, j + 1, i) \in seg_words}

\* the smallest member of a non-empty set of numbers
Least(S) == CHOOSE x \in S : \A y \in S : x <= y

\* C22: in segment_into_words, for every end index i the stored
\* decomposition is the first one of minimal word count met while scanning
\* the split points j in ascending order: among tied minimal decompositions
\* the one with the smallest split point (the longest last word) is kept.
C22_FirstMinimalSplitKept ==
    spc = "returned" =>
        /\ seg_result = StoredAt(Len(decoded_chars))
        /\ \A i \in 1..Len(decoded_chars) :
              LET cands == SplitPoints(i)
              IN  IF cands = {} THEN StoredAt(i) = None
                  ELSE LET m  == Least({Len(StoredAt(j)) + 1 : j \in cands})
                           js == Least({j \in cands : Len(StoredAt(j)) + 1 = m})
                       IN  StoredAt(i) = Append(StoredAt(js),
                                                SubSeq(decoded_chars, js + 1, i))

\* C22 happens: "abab" is (ab, ab) and (a, bab), both of two words; the
\* split point 1 is met before the split point 2, so (a, bab) is returned
C22_Witness ==
    /\ spc = "returned"
    /\ decoded_chars = <<"a", "b", "a", "b">>
    /\ {<<"a">>, <<"a", "b">>, <<"b", "a", "b">>} \subseteq seg_words
    /\ {1, 2} \subseteq SplitPoints(4)
    /\ Len(StoredAt(1)) = Len(StoredAt(2))
    /\ seg_result = << <<"a">>, <<"b", "a", "b">> >>

\* ---------------------------------------------------------------------------
\* the work items (indices of root_modes) whose return holds the phrase text
ItemsWithPhrase(text) ==
    {k \in 1..Len(root_modes) :
        \E f \in 1..Len(task_return[k].results) :
            task_return[k].results[f].phrase = text}

\* C23: when the same phrase text is produced by several work items, the
\* record retained by deduplication carries the root and mode of the work
\* item that comes first in enumeration order, whichever worker finished
\* first.
C23_FirstItemKeepsAttribution ==
    pc = "done" =>
        \A i \in 1..Len(best_phrases) :
            LET ks == ItemsWithPhrase(best_phrases[i].phrase)
            IN  /\ ks # {}
                /\ <<best_phrases[i].decoded_root_note, best_phrases[i].decoded_scale>>
                      = root_modes[Least(ks)]

\* C23 happens: a phrase came from several work items, a chunk handed out
\* later came back first, and the record names the first of the items
C23_Witness ==
    /\ pc = "done"
    /\ overtaken
    /\ \E i \in 1..Len(best_phrases) :
          LET ks == ItemsWithPhrase(best_phrases[i].phrase)
          IN  /\ Cardinality(ks) >= 3
              /\ <<best_phrases[i].decoded_root_note, best_phrases[i].decoded_scale>>
                    = root_modes[Least(ks)]
              /\ \E k \in ks : k >= Least(ks) + ChunkSize

\* ---------------------------------------------------------------------------
\* the dedup loop is about to meet a record whose phrase text is stored
DuplicateAhead ==
    /\ pc = "dedup"
    /\ r_i <= Len(flat_results)
    /\ DictHas(unique_results, flat_results[r_i].phrase)

\* C25: every ResultRecord has num_words equal to the number of
\* space-separated words of its phrase text (at least 1, at most the number
\* of melody notes), so two records with the same phrase text have the same
\* num_words and the deduplication branch that replaces a stored record by
\* one with a strictly smaller num_words is never taken.
C25_NumWordsIsWordCount ==
    [][/\ flat_results' # flat_results =>
             \A f \in 1..Len(flat_results') :
                 /\ flat_results'[f].num_words = Len(Split(flat_results'[f].phrase))
                 /\ flat_results'[f].num_words >= 1
                 /\ flat_results'[f].num_words <= Len(melody_notes')
       /\ DuplicateAhead =>
             /\ flat_results[r_i].num_words
                   = DictGet(unique_results, flat_results[r_i].phrase,
                             flat_results[r_i]).num_words
             /\ unique_results' = unique_results]_vars

\* C25 happens: the loop meets a second record of a phrase of two words
C25_Witness ==
    /\ DuplicateAhead
    /\ flat_results[r_i].num_words = 2
    /\ Len(Split(flat_results[r_i].phrase)) = 2
    /\ DictGet(unique_results, flat_results[r_i].phrase, flat_results[r_i])
          # flat_results[r_i]

\* ---------------------------------------------------------------------------
\* the same dynamic program scanning every split point j in [0, i): with
\* max_word_length = n the lower bound max(0, i - n) is 0 for every i <= n
ScanningEveryJ ==
    segment_into_words(decoded_chars, seg_words,
                       build_prefix_set(seg_words \cup seg_names),
                       Len(decoded_chars))

\* C26: when max_word_length is at least the length of the longest entry of
\* the word set, restricting the split points to j >= i - max_word_length
\* does not change the result of segment_into_words.
C26_WindowChangesNothing ==
    (/\ spc = "returned"
     /\ \A w \in seg_words : Len(w) <= MaxWordLength(seg_words \cup seg_names))
        => seg_result = ScanningEveryJ

\* C26 happens: the window is shorter than the string, split points are
\* left out, and the phrase returned has several words
C26_Witness ==
    /\ spc = "returned"
    /\ seg_words # {}
    /\ MaxWordLength(seg_words \cup seg_names) = 2
    /\ Len(decoded_chars) = 4
    /\ seg_result # None
    /\ Len(seg_result) >= 2
    /\ seg_result = ScanningEveryJ

\* ---------------------------------------------------------------------------
\* what load_word_list lets through: of the one-letter entries, "a" and "i"
LoaderFilter(S) == \A w \in S : Len(w) > 1 \/ w \in { <<"a">>, <<"i">> }

\* the call as main makes it: words_set is english_words, as the loader
\* returned it
CalledAsMain ==
    /\ d_words_set = d_english
    /\ LoaderFilter(d_english)

\* the candidates of the turns taken so far that have a decomposition
SegmentedSoFar ==
    {k \in 1..(d_i - 1) :
        LET p == segment_into_words(d_combinations.items[k], d_words_set,
                     build_prefix_set(d_english \cup d_names),
                     MaxWordLength(d_words_set \cup d_english \cup d_names))
        IN  p # None /\ p # <<>>}

\* C27: when the lexicon satisfies the loader's filter, every non-empty
\* decomposition returned by segment_into_words inside process_root_mode
\* passes is_valid_phrase, so no candidate string that has a decomposition
\* is dropped by the validation step.
C27_ValidationDropsNothing ==
    (/\ CalledAsMain
     /\ dpc = "loop")
        => /\ (d_phrase # None /\ d_phrase # <<>>) => d_valid
           /\ Len(d_results) = Cardinality(SegmentedSoFar)

\* C27 happens: a phrase with the one-letter word "i" has been segmented
\* and validated, and its record is the last of the results
C27_Witness ==
    /\ CalledAsMain
    /\ dpc = "loop"
    /\ d_phrase = << <<"i">>, <<"i">> >>
    /\ d_valid
    /\ d_results # <<>>
    /\ d_results[Len(d_results)] = ResultRecord(d_phrase, d_root_mode)

\* ---------------------------------------------------------------------------
\* C24: every run that passes the preconditions eventually reaches Done:
\* each of the finitely many work items terminates, and the worker pool is
\* closed and joined on every path after its creation, including the path
\* where the parallel map raises. (A run has passed the preconditions when
\* it has created the pool.)
C24_EventuallyDoneAndJoined ==
    /\ (pool = "open") ~> (pc = "done" /\ pool = "joined")
    /\ [](pc \in {"dedup", "done"} => pool = "joined")
    /\ [](pool = "open" => pc \in {"map", "raised"})

\* C24 happens: the map raised while work items had phrases to return, the
\* pool was joined all the same and the run is done, with nothing to report
C24_Witness ==
    /\ pc = "done"
    /\ pool = "joined"
    /\ all_results = <<>>
    /\ done_chunks = 1..NumChunks
    /\ \E k \in 1..Len(task_return) : task_return[k].results # <<>>
    /\ best_phrases = <<>>

====
